---- MODULE Spec2Model ----
(***************************************************************************)
(* Model of BankDatabase (src/database.py): the banks / accounts /         *)
(* transactions store, identity resolution, the CSV import pipeline and    *)
(* the reporting queries.                                                  *)
(*                                                                         *)
(* Text is modelled as a sequence of one-character strings, so that        *)
(* parsing, formatting and string ordering are computed and not assumed.   *)
(* Money is an integer number of hundredths (DECIMAL(15,2)); the cells of  *)
(* the statements imported carry at most Scale fraction digits.  A         *)
(* nullable column                                                         *)
(* is the empty sequence (NULL) or a one-element sequence.  A cell that    *)
(* pandas reads as NaN (empty or missing) is the empty sequence: pandas    *)
(* never yields an empty string for a cell.                                *)
(***************************************************************************)
EXTENDS Integers, Sequences, FiniteSets, TLC

(* ------------------------------ bounds --------------------------------- *)
\* most rows a statement file holds after its header
MaxRows == 2
\* most transaction rows the store holds (imports beyond it are not started)
MaxTx == 2
\* most account rows the store holds
MaxAccounts == 2

\* fraction digits of a monetary value: DECIMAL(15,2)
Scale == 2

(* ------------------------------- text ---------------------------------- *)
Digits == {"0", "1", "2", "3", "4", "5", "6", "7", "8", "9"}

DigitVal(c) ==
  CASE c = "0" -> 0 [] c = "1" -> 1 [] c = "2" -> 2 [] c = "3" -> 3
    [] c = "4" -> 4 [] c = "5" -> 5 [] c = "6" -> 6 [] c = "7" -> 7
    [] c = "8" -> 8 [] c = "9" -> 9 [] OTHER -> 0

DigitChar(n) ==
  CASE n = 0 -> "0" [] n = 1 -> "1" [] n = 2 -> "2" [] n = 3 -> "3"
    [] n = 4 -> "4" [] n = 5 -> "5" [] n = 6 -> "6" [] n = 7 -> "7"
    [] n = 8 -> "8" [] OTHER -> "9"

\* code point of a character, for the store's BINARY text collation
Ord(c) ==
  CASE c = " " -> 32 [] c = "(" -> 40 [] c = ")" -> 41 [] c = "," -> 44
    [] c = "-" -> 45 [] c = "." -> 46 [] c = "/" -> 47
    [] c \in Digits -> 48 + DigitVal(c)
    [] OTHER -> 97

IsSpace(c) == c = " "

RECURSIVE LStrip(_)
LStrip(s) == IF s # <<>> /\ IsSpace(Head(s)) THEN LStrip(Tail(s)) ELSE s

RECURSIVE RStrip(_)
RStrip(s) ==
  IF s # <<>> /\ IsSpace(s[Len(s)]) THEN RStrip(SubSeq(s, 1, Len(s) - 1)) ELSE s

\* str.strip()
Strip(s) == RStrip(LStrip(s))

\* str.replace(c, '')
Remove(s, c) == SelectSeq(s, LAMBDA x : x # c)

\* sub in s
Contains(s, sub) ==
  \E i \in 1..(Len(s) - Len(sub) + 1) : SubSeq(s, i, i + Len(sub) - 1) = sub

AllDigits(s) == \A i \in 1..Len(s) : s[i] \in Digits

RECURSIVE NumVal(_)
NumVal(s) ==
  IF s = <<>> THEN 0
  ELSE 10 * NumVal(SubSeq(s, 1, Len(s) - 1)) + DigitVal(s[Len(s)])

RECURSIVE NumStr(_)
NumStr(n) == IF n < 10 THEN <<DigitChar(n)>> ELSE NumStr(n \div 10) \o <<DigitChar(n % 10)>>

Pad2(n) == IF n < 10 THEN <<"0">> \o NumStr(n) ELSE NumStr(n)

\* the pieces of s between occurrences of sep
RECURSIVE Split(_, _)
Split(s, sep) ==
  IF \A i \in 1..Len(s) : s[i] # sep THEN <<s>>
  ELSE LET k == CHOOSE i \in 1..Len(s) :
                  s[i] = sep /\ \A j \in 1..(i - 1) : s[j] # sep
       IN  <<SubSeq(s, 1, k - 1)>> \o Split(SubSeq(s, k + 1, Len(s)), sep)

\* a < b in the store's text ordering (memcmp)
RECURSIVE TextLess(_, _)
TextLess(a, b) ==
  IF b = <<>> THEN FALSE
  ELSE IF a = <<>> THEN TRUE
  ELSE IF Ord(Head(a)) # Ord(Head(b)) THEN Ord(Head(a)) < Ord(Head(b))
  ELSE TextLess(Tail(a), Tail(b))

(* ------------------------------ values --------------------------------- *)
Null == <<>>
Some(v) == <<v>>
IsNull(x) == x = <<>>

Str_Total == <<"T", "o", "t", "a", "l">>
Str_Beginning == <<"B", "e", "g", "i", "n", "n", "i", "n", "g">>
Str_Ending == <<"E", "n", "d", "i", "n", "g">>
Str_Summary == <<"S", "u", "m", "m", "a", "r", "y">>
Str_Date == <<"D", "a", "t", "e">>
Str_Description == <<"D", "e", "s", "c", "r", "i", "p", "t", "i", "o", "n">>
Str_nan == <<"n", "a", "n">>
Str_0 == <<"0">>

(* --------------------------- parse_amount ------------------------------ *)
Ok(v) == [ok |-> TRUE, val |-> v]
Err == [ok |-> FALSE, val |-> 0]

RECURSIVE Pow10(_)
Pow10(n) == IF n <= 0 THEN 1 ELSE 10 * Pow10(n - 1)

\* str.lower() on the letters Decimal's syntax uses
Lower(c) ==
  CASE c = "A" -> "a" [] c = "E" -> "e" [] c = "F" -> "f" [] c = "I" -> "i"
    [] c = "N" -> "n" [] c = "S" -> "s" [] c = "T" -> "t" [] c = "Y" -> "y"
    [] OTHER -> c

RECURSIVE LowerText(_)
LowerText(s) == IF s = <<>> THEN <<>> ELSE <<Lower(Head(s))>> \o LowerText(Tail(s))

\* a Decimal that is no multiple of a hundredth: coefficient * 10^exponent
Fine(coefficient, exponent) ==
  [ok |-> TRUE, coefficient |-> coefficient, exponent |-> exponent]

\* Decimal('NaN'), Decimal('sNaN'), Decimal('Infinity') and their negatives
Special(kind, negative) == [ok |-> TRUE, special |-> kind, negative |-> negative]

IsSpecial(r) == r.ok /\ "special" \in DOMAIN r

\* the Decimal coefficient * 10^exponent, in hundredths where it is a
\* whole number of them
Exact(coefficient, exponent) ==
  IF exponent >= 0 - Scale THEN Ok(coefficient * Pow10(exponent + Scale))
  ELSE IF coefficient % Pow10(0 - exponent - Scale) = 0
  THEN Ok(coefficient \div Pow10(0 - exponent - Scale))
  ELSE Fine(coefficient, exponent)

\* Decimal(text): the text is stripped and its underscores removed; then a
\* sign, and digits with an optional fraction and an optional exponent, or
\* Inf / Infinity, or NaN / sNaN with optional digits, in any letter case;
\* anything else raises decimal.InvalidOperation
\* the magnitude of the digits ip "." fp times 10^exponent
Magnitude(ip, fp, exponent) ==
  IF AllDigits(ip) /\ AllDigits(fp) /\ Len(ip) + Len(fp) > 0
  THEN Exact(NumVal(ip \o fp), exponent - Len(fp))
  ELSE Err

Unsigned(parts, exponent) ==
  IF Len(parts) = 1 THEN Magnitude(parts[1], <<>>, exponent)
  ELSE IF Len(parts) = 2 THEN Magnitude(parts[1], parts[2], exponent)
  ELSE Err

\* the exponent after "e": an optional sign and at least one digit
Exponent(s) ==
  IF s # <<>> /\ s[1] \in {"-", "+"}
  THEN IF Len(s) > 1 /\ AllDigits(Tail(s))
       THEN Ok(IF s[1] = "-" THEN 0 - NumVal(Tail(s)) ELSE NumVal(Tail(s)))
       ELSE Err
  ELSE IF s # <<>> /\ AllDigits(s) THEN Ok(NumVal(s))
  ELSE Err

\* the exponent found applied to the digits before "e"
Raised(mantissa, exponent) ==
  IF exponent.ok THEN Unsigned(Split(mantissa, "."), exponent.val) ELSE Err

Number(s) ==
  IF Len(Split(s, "e")) = 1 THEN Unsigned(Split(s, "."), 0)
  ELSE IF Len(Split(s, "e")) = 2
  THEN Raised(Split(s, "e")[1], Exponent(Split(s, "e")[2]))
  ELSE Err

\* s is the word followed by digits only
IsWordWithDigits(s, word) ==
  /\ Len(s) >= Len(word)
  /\ SubSeq(s, 1, Len(word)) = word
  /\ AllDigits(SubSeq(s, Len(word) + 1, Len(s)))

\* the text after the sign, in lower case
Body(s) ==
  IF s \in {<<"i", "n", "f">>, <<"i", "n", "f", "i", "n", "i", "t", "y">>}
  THEN Special("Infinity", FALSE)
  ELSE IF IsWordWithDigits(s, <<"n", "a", "n">>) THEN Special("NaN", FALSE)
  ELSE IF IsWordWithDigits(s, <<"s", "n", "a", "n">>) THEN Special("sNaN", FALSE)
  ELSE Number(s)

\* a value with the sign "-" written before it
Minus(r) ==
  IF ~r.ok THEN r
  ELSE IF IsSpecial(r) THEN Special(r.special, ~r.negative)
  ELSE IF "exponent" \in DOMAIN r THEN Fine(0 - r.coefficient, r.exponent)
  ELSE Ok(0 - r.val)

\* Decimal.__neg__: a quiet NaN is returned as it is, a signalling NaN
\* raises decimal.InvalidOperation
Negate(r) ==
  IF IsSpecial(r) /\ r.special = "NaN" THEN r
  ELSE IF IsSpecial(r) /\ r.special = "sNaN" THEN Err
  ELSE Minus(r)

Signed(s) ==
  IF s # <<>> /\ s[1] = "-" THEN Minus(Body(Tail(s)))
  ELSE IF s # <<>> /\ s[1] = "+" THEN Body(Tail(s))
  ELSE Body(s)

Decimal(text) == Signed(LowerText(Remove(Strip(text), "_")))

\* the branches of parse_amount with a parenthesised value read as positive
Cleaned_ParenthesesKeepSign(cleaned) ==
  IF cleaned # <<>> /\ cleaned[1] = "-" THEN Decimal(cleaned)
  ELSE IF cleaned # <<>> /\ cleaned[1] = "(" /\ cleaned[Len(cleaned)] = ")"
  THEN Decimal(SubSeq(cleaned, 2, Len(cleaned) - 1))
  ELSE Decimal(cleaned)

\* the "Handle negative amounts" branches of parse_amount
Cleaned(cleaned) ==
  IF cleaned # <<>> /\ cleaned[1] = "-" THEN Decimal(cleaned)
  ELSE IF cleaned # <<>> /\ cleaned[1] = "(" /\ cleaned[Len(cleaned)] = ")"
  THEN Negate(Decimal(SubSeq(cleaned, 2, Len(cleaned) - 1)))
  ELSE Decimal(cleaned)

\* BankDatabase.parse_amount; amount_str is Null for None
parse_amount(amount_str) ==
  IF IsNull(amount_str) \/ Strip(amount_str) = <<>> \/ Strip(amount_str) = Str_nan
  THEN Ok(0)
  ELSE Cleaned(Strip(Remove(Remove(amount_str, ","), "\"")))

(* ---------------------------- parse_date ------------------------------- *)
IsLeap(y) == (y % 4 = 0 /\ y % 100 # 0) \/ y % 400 = 0

DaysInMonth(y, m) ==
  IF m = 2 THEN (IF IsLeap(y) THEN 29 ELSE 28)
  ELSE IF m \in {4, 6, 9, 11} THEN 30 ELSE 31

\* strptime's %m : 1[0-2] | 0[1-9] | [1-9]
IsMonthField(f) ==
  \/ Len(f) = 1 /\ f[1] \in Digits \ {"0"}
  \/ Len(f) = 2 /\ f[1] = "1" /\ f[2] \in {"0", "1", "2"}
  \/ Len(f) = 2 /\ f[1] = "0" /\ f[2] \in Digits \ {"0"}

\* strptime's %d : 3[01] | [12]\d | 0[1-9] | [1-9] | ' '[1-9]
IsDayField(f) ==
  \/ Len(f) = 1 /\ f[1] \in Digits \ {"0"}
  \/ Len(f) = 2 /\ f[1] = "3" /\ f[2] \in {"0", "1"}
  \/ Len(f) = 2 /\ f[1] \in {"1", "2"} /\ f[2] \in Digits
  \/ Len(f) = 2 /\ f[1] \in {"0", " "} /\ f[2] \in Digits \ {"0"}

\* strptime's %Y : \d\d\d\d
IsYearField(f) == Len(f) = 4 /\ AllDigits(f)

FieldVal(f) == NumVal(SelectSeq(f, LAMBDA c : c \in Digits))

\* datetime.strptime(text, fmt) for the two formats parse_date uses, on the
\* fields between the separators; the result is the calendar date
\* <<y, m, d>>, or ValueError
NoDate == [ok |-> FALSE, val |-> <<0, 0, 0>>]

\* datetime(y, m, d)
Calendar(y, m, d) == IF y >= 1 /\ d <= DaysInMonth(y, m) THEN Ok(<<y, m, d>>) ELSE NoDate

Fields(y, m, d) ==
  IF IsYearField(y) /\ IsMonthField(m) /\ IsDayField(d)
  THEN Calendar(FieldVal(y), FieldVal(m), FieldVal(d))
  ELSE NoDate

strptime_mdY(f) == IF Len(f) = 3 THEN Fields(f[3], f[1], f[2]) ELSE NoDate

strptime_Ymd(f) == IF Len(f) = 3 THEN Fields(f[1], f[2], f[3]) ELSE NoDate

\* date_obj.strftime('%Y-%m-%d')
strftime(d) == NumStr(d[1]) \o <<"-">> \o Pad2(d[2]) \o <<"-">> \o Pad2(d[3])

\* BankDatabase.parse_date: the stored text, or ValueError
ValueError == [ok |-> FALSE, val |-> <<>>]

Formatted(r) == IF r.ok THEN Ok(strftime(r.val)) ELSE ValueError

Unchanged(r, date_str) == IF r.ok THEN Ok(date_str) ELSE ValueError

parse_date(date_str) ==
  IF Contains(date_str, <<"/">>)
  THEN Formatted(strptime_mdY(Split(date_str, "/")))
  ELSE Unchanged(strptime_Ymd(Split(date_str, "-")), date_str)

(* ------------------------------ inputs --------------------------------- *)
D_slash == <<"0", "5", "/", "1", "0", "/", "2", "0", "2", "4">>
D_iso == <<"2", "0", "2", "4", "-", "0", "6", "-", "0", "1">>
D_isoSame == <<"2", "0", "2", "4", "-", "0", "5", "-", "1", "0">>
D_isoShort == <<"2", "0", "2", "4", "-", "4", "-", "1">>
D_month13 == <<"1", "3", "/", "0", "1", "/", "2", "0", "2", "4">>
D_text == <<"i", "n", "v", "a", "l", "i", "d", "-", "d", "a", "t", "e">>
D_blank == <<" ">>
Desc_pay == <<"P", "a", "y">>
Desc_total == <<"T", "o", "t", "a", "l", " ", "c", "r", "e", "d", "i", "t", "s">>
A_debit == <<"-", "2", ".", "5", "0">>
A_credit == <<"1", ".", "0", "0">>
A_paren == <<"(", "1", ".", "5", "0", ")">>
A_zero == <<"0", ".", "0", "0">>
A_text == <<"a", "b", "c">>
B_750 == <<"7", ".", "5", "0">>
B_850 == <<"8", ".", "5", "0">>
NaN == <<>>
Desc_beginning == <<"B", "e", "g", "i", "n", "n", "i", "n", "g", " ", "b", "a", "l">>
Desc_ending == <<"E", "n", "d", "i", "n", "g", " ", "b", "a", "l">>
Desc_summary == <<"S", "u", "m", "m", "a", "r", "y">>
A_nanSpaced == <<" ", "n", "a", "n">>

\* a data row of the statement: the cells [date, description, amount, running
\* balance] as pandas hands them over (row.iloc[0..3])
Row(d, desc, a, b) == <<d, desc, a, b>>

\* rows the statements of the model are made of
StatementRows ==
  { Row(D_slash, Desc_pay, A_debit, B_750),
    Row(D_isoShort, Desc_pay, A_credit, B_850),
    Row(D_isoSame, Desc_pay, A_zero, NaN),
    Row(D_month13, Desc_pay, A_credit, B_850),
    Row(D_slash, Desc_total, A_text, B_750) }

\* the rows of the one-row statements: every combination of these cells
ClassifierRows ==
  { Row(d, desc, a, b) :
      d \in {D_slash, D_text, D_blank, NaN, <<"D", "a", "t", "e">>},
      desc \in {Desc_pay, Desc_total, Desc_beginning, Desc_ending, Desc_summary,
                <<"D", "e", "s", "c", "r", "i", "p", "t", "i", "o", "n">>, NaN},
      a \in {A_credit, A_paren, A_text, A_nanSpaced, NaN},
      b \in {B_750, A_text, A_zero, D_blank, NaN} }

RECURSIVE SeqsUpTo(_, _)
SeqsUpTo(S, n) ==
  IF n = 0 THEN {<<>>}
  ELSE LET shorter == SeqsUpTo(S, n - 1)
       IN  shorter \cup {Append(q, x) : q \in shorter, x \in S}

\* what pd.read_csv(csv_file_path, skiprows=6) yields: the data rows of a
\* readable statement, or an exception
Readable(rows) == [readable |-> TRUE, rows |-> rows]
Unreadable == [readable |-> FALSE, rows |-> <<>>]
Sources == {Readable(rows) : rows \in SeqsUpTo(StatementRows, MaxRows)} \cup {Unreadable}
\* the statements used when the store raises during the import
OneRowSources == {Readable(<<r>>) : r \in StatementRows}
\* the one-row statements of the classifier's rows
ClassifierSources == {Readable(<<r>>) : r \in ClassifierRows}

BankNames == {"Bank A", "Bank B"}
AccountNumbers == {"1111", "2222"}
AccountNames == {"Account 1"}

(* ------------------------------- store --------------------------------- *)
\* banks, accounts, transactions: the committed rows of the three tables, in
\* id order.  ids are AUTOINCREMENT and no row is ever deleted, so the row
\* with id k is the k-th element.
\* call: what the single caller is doing: idle, or the call that has just
\* returned, with its arguments, the store it started from and its result.
\* resolvedBanks, resolvedAccounts: every (key, id) pair that
\* get_or_create_bank / get_or_create_account has ever returned.
\* lastImport: the arguments and the result of the latest successful
\* import_csv_data call, for a caller that keeps them (SpecReimport).
\* sessions: for each connection to the database file, where it is in the
\* call it is executing and what it has not committed yet (SpecReader,
\* SpecWriters); every connection is idle in the other specifications.
VARIABLES banks, accounts, transactions, call, resolvedBanks, resolvedAccounts, lastImport,
          sessions

vars == <<banks, accounts, transactions, call, resolvedBanks, resolvedAccounts, lastImport,
          sessions>>

Db(b, a, t) == [banks |-> b, accounts |-> a, transactions |-> t]
Store == Db(banks, accounts, transactions)

Idle == [op |-> "idle"]

NoImport == [made |-> FALSE]

\* the BankDatabase objects opened on the same db_path
Connections == {1, 2}

Closed == [pc |-> "idle"]

NoSessions == [c \in Connections |-> Closed]

\* create_tables on a fresh database file
Init ==
  /\ banks = <<>>
  /\ accounts = <<>>
  /\ transactions = <<>>
  /\ call = Idle
  /\ resolvedBanks = {}
  /\ resolvedAccounts = {}
  /\ lastImport = NoImport
  /\ sessions = NoSessions

Min(S) == CHOOSE x \in S : \A y \in S : x <= y
Max(S) == CHOOSE x \in S : \A y \in S : y <= x

(* ----------------------- identity resolution --------------------------- *)
\* SELECT bank_id FROM banks WHERE bank_name = ? ; fetchone()
BankLookup(db, bank_name) ==
  {i \in 1..Len(db.banks) : db.banks[i].bank_name = bank_name}

\* get_or_create_bank without the lookup: a row is inserted on every call
BankResolution_AlwaysInsert(db, bank_name) ==
  [db |-> [db EXCEPT !.banks = Append(@, [bank_name |-> bank_name])],
   id |-> Len(db.banks) + 1]

\* get_or_create_bank: the store after the call and the id returned
BankResolution(db, bank_name) ==
  LET found == BankLookup(db, bank_name)
  IN  IF found # {}
      THEN [db |-> db, id |-> Min(found)]
      ELSE [db |-> [db EXCEPT !.banks = Append(@, [bank_name |-> bank_name])],
            id |-> Len(db.banks) + 1]

\* SELECT account_id FROM accounts WHERE bank_id = ? AND account_number = ?
AccountLookup(db, bank_id, account_number) ==
  {i \in 1..Len(db.accounts) :
     db.accounts[i].bank_id = bank_id /\ db.accounts[i].account_number = account_number}

NewAccount(bank_id, account_number, account_name) ==
  [bank_id |-> bank_id, account_number |-> account_number,
   account_name |-> account_name, current_balance |-> Null]

\* get_or_create_account without the lookup
AccountResolution_AlwaysInsert(db, bank_id, account_number, account_name) ==
  IF bank_id \notin 1..Len(db.banks)
  THEN [db |-> db, id |-> 0, raised |-> TRUE]
  ELSE [db |-> [db EXCEPT !.accounts =
                  Append(@, NewAccount(bank_id, account_number, account_name))],
        id |-> Len(db.accounts) + 1,
        raised |-> FALSE]

\* get_or_create_account that writes the display name it is given over the
\* name of the account it finds
AccountResolution_Rename(db, bank_id, account_number, account_name) ==
  IF AccountLookup(db, bank_id, account_number) # {}
  THEN [db |-> [db EXCEPT !.accounts[Min(AccountLookup(db, bank_id, account_number))]
                            .account_name = account_name],
        id |-> Min(AccountLookup(db, bank_id, account_number)), raised |-> FALSE]
  ELSE IF bank_id \notin 1..Len(db.banks)
  THEN [db |-> db, id |-> 0, raised |-> TRUE]
  ELSE [db |-> [db EXCEPT !.accounts =
                  Append(@, NewAccount(bank_id, account_number, account_name))],
        id |-> Len(db.accounts) + 1,
        raised |-> FALSE]

\* get_or_create_account on a connection that does not enforce foreign keys
AccountResolution_NoForeignKey(db, bank_id, account_number, account_name) ==
  IF AccountLookup(db, bank_id, account_number) # {}
  THEN [db |-> db, id |-> Min(AccountLookup(db, bank_id, account_number)), raised |-> FALSE]
  ELSE [db |-> [db EXCEPT !.accounts =
                  Append(@, NewAccount(bank_id, account_number, account_name))],
        id |-> Len(db.accounts) + 1,
        raised |-> FALSE]

\* get_or_create_account: the store after the call, the id returned, or
\* raised = TRUE when the INSERT violates FOREIGN KEY (bank_id)
AccountResolution(db, bank_id, account_number, account_name) ==
  LET found == AccountLookup(db, bank_id, account_number)
  IN  IF found # {}
      THEN [db |-> db, id |-> Min(found), raised |-> FALSE]
      ELSE IF bank_id \notin 1..Len(db.banks)
      THEN [db |-> db, id |-> 0, raised |-> TRUE]
      ELSE [db |-> [db EXCEPT !.accounts =
                      Append(@, NewAccount(bank_id, account_number, account_name))],
            id |-> Len(db.accounts) + 1,
            raised |-> FALSE]

(* --------------------------- row processing ---------------------------- *)
isna(cell) == cell = NaN

\* the skip rules of the row loop, in the order the code applies them
IsEmptyRow(row) == isna(row[1]) \/ Strip(row[1]) = <<>>

DescriptionOf(row) == IF isna(row[2]) THEN <<>> ELSE Strip(row[2])

IsSummaryRow(row) ==
  \/ Contains(DescriptionOf(row), Str_Total)
  \/ Contains(DescriptionOf(row), Str_Beginning)
  \/ Contains(DescriptionOf(row), Str_Ending)
  \/ Contains(DescriptionOf(row), Str_Summary)

IsHeaderRow(row) == Strip(row[1]) = Str_Date \/ DescriptionOf(row) = Str_Description

IsNaNAmountRow(row) == isna(row[3]) \/ Strip(row[3]) = Str_nan

\* the body of the row loop for the row at dataframe index i: the row is
\* skipped, or a transaction row is inserted, or an error entry is logged
Skipped == [kind |-> "skip"]

RowError(i, e) == [kind |-> "error", entry |-> [row |-> i + 7, error |-> e]]

\* an insert that takes a zero amount for a debit
Insert_ZeroIsDebit(account_id, transaction_date, description, amount, balance_after) ==
  [kind |-> "insert",
   txn |-> [account_id |-> account_id,
            transaction_date |-> transaction_date,
            description |-> description,
            amount |-> amount,
            transaction_type |-> IF amount > 0 THEN "credit" ELSE "debit",
            balance_after |-> IF IsNull(balance_after) \/ balance_after[1] = 0
                              THEN Null ELSE balance_after]]

\* the INSERT INTO transactions of the row loop; balance_after is written as
\* NULL when it is None or zero
Insert(account_id, transaction_date, description, amount, balance_after) ==
  [kind |-> "insert",
   txn |-> [account_id |-> account_id,
            transaction_date |-> transaction_date,
            description |-> description,
            amount |-> amount,
            transaction_type |-> IF amount >= 0 THEN "credit" ELSE "debit",
            balance_after |-> IF IsNull(balance_after) \/ balance_after[1] = 0
                              THEN Null ELSE balance_after]]

date_str(row) == Strip(row[1])
amount_str(row) == IF isna(row[3]) THEN Str_0 ELSE Strip(row[3])
balance_str(row) == IF isna(row[4]) THEN Null ELSE Strip(row[4])

\* "Parse and validate data" and the insert, given the results of parse_date,
\* of parse_amount on the amount and of parse_amount on the balance (Null
\* when balance_str is None or empty)
Normalize(i, account_id, description, d, a, b) ==
  IF ~d.ok THEN RowError(i, "date")
  ELSE IF ~a.ok THEN RowError(i, "amount")
  ELSE IF IsNull(b) THEN Insert(account_id, d.val, description, a.val, Null)
  ELSE IF ~b[1].ok THEN RowError(i, "amount")
  ELSE Insert(account_id, d.val, description, a.val, Some(b[1].val))

ParsedBalance(s) == IF s # <<>> THEN Some(parse_amount(s)) ELSE Null

\* a row loop body that parses the date before it applies the skip rules
ProcessRow_ParseFirst(row, i, account_id) ==
  IF IsEmptyRow(row) THEN Skipped
  ELSE IF ~parse_date(date_str(row)).ok THEN RowError(i, "date")
  ELSE IF IsSummaryRow(row) \/ IsHeaderRow(row) \/ IsNaNAmountRow(row) THEN Skipped
  ELSE Normalize(i, account_id, DescriptionOf(row),
                 parse_date(date_str(row)),
                 parse_amount(amount_str(row)),
                 ParsedBalance(balance_str(row)))

ProcessRow(row, i, account_id) ==
  IF IsEmptyRow(row) THEN Skipped
  ELSE IF IsSummaryRow(row) \/ IsHeaderRow(row) \/ IsNaNAmountRow(row) THEN Skipped
  ELSE Normalize(i, account_id, DescriptionOf(row),
                 parse_date(date_str(row)),
                 parse_amount(amount_str(row)),
                 ParsedBalance(balance_str(row)))

\* the row loop over rows[k..], from the working state w =
\* [transactions, transactions_imported, errors]
Accumulate(w, r) ==
  IF r.kind = "insert"
  THEN [w EXCEPT !.transactions = Append(@, r.txn), !.transactions_imported = @ + 1]
  ELSE IF r.kind = "error"
  THEN [w EXCEPT !.errors = Append(@, r.entry)]
  ELSE w

\* a row loop that ends at the first row error
RECURSIVE RowLoop_StopAtError(_, _, _, _)
RowLoop_StopAtError(rows, k, account_id, w) ==
  IF k > Len(rows) THEN w
  ELSE IF ProcessRow(rows[k], k - 1, account_id).kind = "error"
  THEN Accumulate(w, ProcessRow(rows[k], k - 1, account_id))
  ELSE RowLoop_StopAtError(rows, k + 1, account_id,
                           Accumulate(w, ProcessRow(rows[k], k - 1, account_id)))

RECURSIVE RowLoop(_, _, _, _)
RowLoop(rows, k, account_id, w) ==
  IF k > Len(rows) THEN w
  ELSE RowLoop(rows, k + 1, account_id,
               Accumulate(w, ProcessRow(rows[k], k - 1, account_id)))

\* the row loop when the store raises on the first INSERT that is executed:
\* the except clause of the row logs it as an error entry of that row
RECURSIVE RowLoopRaising(_, _, _, _)
RowLoopRaising(rows, k, account_id, w) ==
  IF k > Len(rows) THEN w
  ELSE IF ProcessRow(rows[k], k - 1, account_id).kind = "insert"
  THEN RowLoop(rows, k + 1, account_id, Accumulate(w, RowError(k - 1, "insert")))
  ELSE RowLoopRaising(rows, k + 1, account_id,
                      Accumulate(w, ProcessRow(rows[k], k - 1, account_id)))

\* "Process each transaction"
StreamRows(rows, account_id, w, fault) ==
  IF fault = "insert" THEN RowLoopRaising(rows, 1, account_id, w)
  ELSE RowLoop(rows, 1, account_id, w)

(* -------------------------- balance recompute -------------------------- *)
TxOf(txs, account_id) == {i \in 1..Len(txs) : txs[i].account_id = account_id}

\* ORDER BY transaction_date DESC, transaction_id DESC: i comes before j
LatestFirst(txs, i, j) ==
  \/ TextLess(txs[j].transaction_date, txs[i].transaction_date)
  \/ txs[j].transaction_date = txs[i].transaction_date /\ i > j

\* SELECT balance_after ... LIMIT 1: the id of the row selected
LatestTx(txs, account_id) ==
  CHOOSE i \in TxOf(txs, account_id) :
    \A j \in TxOf(txs, account_id) \ {i} : LatestFirst(txs, i, j)

\* the account rows, each with the balance given
RECURSIVE WithBalance(_, _)
WithBalance(rows, result) ==
  IF rows = <<>> THEN <<>>
  ELSE <<[Head(rows) EXCEPT !.current_balance = result]>> \o WithBalance(Tail(rows), result)

\* an UPDATE accounts without its WHERE clause
SetBalance_EveryAccount(db, account_id, result) ==
  IF ~IsNull(result) /\ result[1] # 0
  THEN [db EXCEPT !.accounts = WithBalance(db.accounts, result)]
  ELSE db

\* the "Update account current balance" block
SetBalance(db, account_id, result) ==
  IF ~IsNull(result) /\ result[1] # 0
  THEN [db EXCEPT !.accounts[account_id].current_balance = result]
  ELSE db

UpdateBalance(db, account_id, transactions_imported) ==
  IF transactions_imported > 0
  THEN SetBalance(db, account_id,
                  db.transactions[LatestTx(db.transactions, account_id)].balance_after)
  ELSE db

(* ------------------------------- import -------------------------------- *)
\* where a store exception (sqlite3.Error) is raised inside import_csv_data
Faults == {"bank", "account", "rows", "insert", "balance", "commit"}

Failure(e) ==
  [success |-> FALSE, error |-> e, transactions_imported |-> 0, errors |-> <<>>]

Outcome(db, ret, bank, account) == [db |-> db, ret |-> ret, bank |-> bank, account |-> account]

Success(transactions_imported, errors, bank_id, account_id) ==
  [success |-> TRUE, transactions_imported |-> transactions_imported, errors |-> errors,
   bank_id |-> bank_id, account_id |-> account_id]

\* an except branch that does not roll back
Finish_NoRollback(resolved, w, bank_id, account_id, fault, bank, account) ==
  IF fault \in {"rows", "balance", "commit"}
  THEN Outcome([resolved EXCEPT !.transactions = w.transactions],
               Failure(fault), bank, account)
  ELSE Outcome(UpdateBalance([resolved EXCEPT !.transactions = w.transactions],
                             account_id, w.transactions_imported),
               Success(w.transactions_imported, w.errors, bank_id, account_id),
               bank, account)

\* from the end of the row loop to the return: the balance update and the
\* commit, or the rollback to the store resolved holds
Finish(resolved, w, bank_id, account_id, fault, bank, account) ==
  IF fault \in {"rows", "balance", "commit"}
  THEN Outcome(resolved, Failure(fault), bank, account)
  ELSE Outcome(UpdateBalance([resolved EXCEPT !.transactions = w.transactions],
                             account_id, w.transactions_imported),
               Success(w.transactions_imported, w.errors, bank_id, account_id),
               bank, account)

\* from the return of get_or_create_account (a) on
Streamed(a, rows, bank_name, bank_id, account_number, fault) ==
  Finish(a.db,
         StreamRows(rows, a.id,
                    [transactions |-> a.db.transactions, transactions_imported |-> 0,
                     errors |-> <<>>],
                    fault),
         bank_id, a.id, fault,
         {<<bank_name, bank_id>>}, {<<bank_id, account_number, a.id>>})

\* from the return of get_or_create_bank (b) on
Resolved(b, rows, bank_name, account_number, account_name, fault) ==
  IF fault = "account"
  THEN Outcome(b.db, Failure(fault), {<<bank_name, b.id>>}, {})
  ELSE Streamed(AccountResolution(b.db, b.id, account_number, account_name),
                rows, bank_name, b.id, account_number, fault)

\* import_csv_data with the identities resolved before the source is read
Import_ResolveFirst(db, src, bank_name, account_number, account_name, fault) ==
  IF ~src.readable
  THEN Outcome(Resolved(BankResolution(db, bank_name), <<>>, bank_name,
                        account_number, account_name, "commit").db,
               Failure("read_csv"), {}, {})
  ELSE IF fault = "bank" THEN Outcome(db, Failure(fault), {}, {})
  ELSE Resolved(BankResolution(db, bank_name), src.rows, bank_name,
                account_number, account_name, fault)

\* import_csv_data with the bank resolved before the source is read
Import_ResolveBankFirst(db, src, bank_name, account_number, account_name, fault) ==
  IF ~src.readable
  THEN Outcome(BankResolution(db, bank_name).db, Failure("read_csv"),
               {<<bank_name, BankResolution(db, bank_name).id>>}, {})
  ELSE IF fault = "bank" THEN Outcome(db, Failure(fault), {}, {})
  ELSE Resolved(BankResolution(db, bank_name), src.rows, bank_name,
                account_number, account_name, fault)

\* import_csv_data: the committed store after the call, the value returned,
\* and the ids the two get_or_create calls returned on the way.  fault is
\* "none", or the stage at which the store raises.  get_or_create_bank and
\* get_or_create_account commit their INSERT themselves; the rollback of the
\* except branch undoes what is not yet committed.
Import(db, src, bank_name, account_number, account_name, fault) ==
  IF ~src.readable THEN Outcome(db, Failure("read_csv"), {}, {})
  ELSE IF fault = "bank" THEN Outcome(db, Failure(fault), {}, {})
  ELSE Resolved(BankResolution(db, bank_name), src.rows, bank_name,
                account_number, account_name, fault)

(* ------------------------------ queries -------------------------------- *)
BankOf(db, t) == db.banks[db.accounts[t.account_id].bank_id]

\* one row of get_all_transactions' SELECT ... JOIN
ListingRow(db, t) ==
  [bank_name |-> BankOf(db, t).bank_name,
   account_name |-> db.accounts[t.account_id].account_name,
   transaction_date |-> t.transaction_date,
   description |-> t.description,
   amount |-> t.amount,
   transaction_type |-> t.transaction_type,
   balance_after |-> t.balance_after]

\* one row of get_account_balance_history's SELECT ... JOIN
HistoryRow(db, t) ==
  [account_name |-> db.accounts[t.account_id].account_name,
   transaction_date |-> t.transaction_date,
   balance_after |-> t.balance_after,
   description |-> t.description]

\* ORDER BY t.transaction_date DESC: every order of the selected rows that the
\* clause allows (rows of equal date come in an order SQL leaves open)
DateDescOrders(txs, ids) ==
  {q \in [1..Cardinality(ids) -> ids] :
     /\ \A k, l \in DOMAIN q : k # l => q[k] # q[l]
     /\ \A k, l \in DOMAIN q :
          k < l => ~TextLess(txs[q[k]].transaction_date, txs[q[l]].transaction_date)}

\* the rows that the WHERE clause of get_account_balance_history selects
HistorySelection(db, account_id) ==
  IF ~IsNull(account_id) /\ account_id[1] # 0
  THEN TxOf(db.transactions, account_id[1])
  ELSE 1..Len(db.transactions)

\* strftime('%Y-%m', transaction_date) of the store: the month of a text in
\* YYYY-MM-DD form, NULL for any other text
IsIsoDate(s) ==
  /\ Len(s) = 10
  /\ s[5] = "-" /\ s[8] = "-"
  /\ \A i \in {1, 2, 3, 4, 6, 7, 9, 10} : s[i] \in Digits
  /\ NumVal(SubSeq(s, 6, 7)) \in 1..12
  /\ NumVal(SubSeq(s, 9, 10)) \in 1..31

SqlMonth(s) == IF IsIsoDate(s) THEN Some(SubSeq(s, 1, 7)) ELSE Null

\* SUM(...) of a group: f maps the rows of the group to the summed values
RECURSIVE Sum(_)
Sum(f) ==
  IF DOMAIN f = {} THEN 0
  ELSE LET x == CHOOSE y \in DOMAIN f : TRUE
       IN  f[x] + Sum([y \in DOMAIN f \ {x} |-> f[y]])

Abs(n) == IF n < 0 THEN 0 - n ELSE n

\* the row of get_monthly_summary for the group with key month
SummaryRow(txs, month) ==
  LET grp == {i \in 1..Len(txs) : SqlMonth(txs[i].transaction_date) = month}
      income == [i \in grp |-> IF txs[i].transaction_type = "credit" THEN txs[i].amount ELSE 0]
      expense == [i \in grp |->
                    IF txs[i].transaction_type = "debit" THEN Abs(txs[i].amount) ELSE 0]
      amount == [i \in grp |-> txs[i].amount]
  IN  [month |-> month,
       total_income |-> Sum(income),
       total_expenses |-> Sum(expense),
       net_amount |-> Sum(amount)]

\* GROUP BY strftime('%Y-%m', transaction_date) ORDER BY month DESC; NULL
\* sorts below every text
MonthlySummary(txs) ==
  LET months == {SqlMonth(txs[i].transaction_date) : i \in 1..Len(txs)}
      MonthBefore(m, n) == IsNull(n) \/ (~IsNull(m) /\ TextLess(n[1], m[1]))
      order == CHOOSE q \in [1..Cardinality(months) -> months] :
                 \A k, l \in DOMAIN q : k < l => q[k] # q[l] /\ MonthBefore(q[k], q[l])
  IN  [k \in 1..Cardinality(months) |-> SummaryRow(txs, order[k])]

(* ------------------------------ actions -------------------------------- *)
StoreUnchanged == UNCHANGED <<banks, accounts, transactions>>

Commit(db) ==
  /\ banks' = db.banks
  /\ accounts' = db.accounts
  /\ transactions' = db.transactions

\* db.get_or_create_bank(bank_name)
get_or_create_bank(bank_name) ==
  /\ call = Idle
  /\ LET r == BankResolution(Store, bank_name)
     IN  /\ Commit(r.db)
         /\ call' = [op |-> "get_or_create_bank", bank_name |-> bank_name,
                     pre |-> Store, ret |-> r.id]
         /\ resolvedBanks' = resolvedBanks \cup {<<bank_name, r.id>>}
  /\ UNCHANGED <<resolvedAccounts, lastImport, sessions>>

\* db.get_or_create_account(bank_id, account_number, account_name)
get_or_create_account(bank_id, account_number, account_name) ==
  /\ call = Idle
  /\ LET r == AccountResolution(Store, bank_id, account_number, account_name)
     IN  /\ Len(r.db.accounts) <= MaxAccounts
         /\ Commit(r.db)
         /\ call' = [op |-> "get_or_create_account", bank_id |-> bank_id,
                     account_number |-> account_number, account_name |-> account_name,
                     pre |-> Store, raised |-> r.raised, ret |-> r.id]
         /\ resolvedAccounts' =
              IF r.raised THEN resolvedAccounts
              ELSE resolvedAccounts \cup {<<bank_id, account_number, r.id>>}
  /\ UNCHANGED <<resolvedBanks, lastImport, sessions>>

ImportCall(src, bank_name, account_number, account_name, fault, keep) ==
  /\ call = Idle
  /\ LET r == Import(Store, src, bank_name, account_number, account_name, fault)
     IN  /\ Len(r.db.transactions) <= MaxTx
         /\ Len(r.db.accounts) <= MaxAccounts
         /\ Commit(r.db)
         /\ call' = [op |-> "import_csv_data", src |-> src, bank_name |-> bank_name,
                     account_number |-> account_number, account_name |-> account_name,
                     fault |-> fault, pre |-> Store, previous |-> lastImport,
                     ret |-> r.ret]
         /\ lastImport' =
              IF keep /\ r.ret.success
              THEN [made |-> TRUE, src |-> src, bank_name |-> bank_name,
                    account_number |-> account_number, ret |-> r.ret]
              ELSE lastImport
         /\ resolvedBanks' = resolvedBanks \cup r.bank
         /\ resolvedAccounts' = resolvedAccounts \cup r.account
  /\ UNCHANGED sessions

\* db.import_csv_data(csv_file_path, bank_name, account_number, account_name)
import_csv_data(src, bank_name, account_number, account_name) ==
  ImportCall(src, bank_name, account_number, account_name, "none", FALSE)

\* the same call by a caller that keeps the arguments and the result
import_csv_data_kept(src, bank_name, account_number, account_name) ==
  ImportCall(src, bank_name, account_number, account_name, "none", TRUE)

\* the same call when the store raises at stage fault
import_csv_data_raising(src, bank_name, account_number, account_name, fault) ==
  /\ src.readable
  /\ ImportCall(src, bank_name, account_number, account_name, fault, FALSE)

\* db.get_all_transactions()
get_all_transactions ==
  /\ call = Idle
  /\ \E q \in DateDescOrders(transactions, 1..Len(transactions)) :
       call' = [op |-> "get_all_transactions", pre |-> Store,
                ret |-> [k \in DOMAIN q |-> ListingRow(Store, transactions[q[k]])]]
  /\ StoreUnchanged
  /\ UNCHANGED <<resolvedBanks, resolvedAccounts, lastImport, sessions>>

\* db.get_monthly_summary()
get_monthly_summary ==
  /\ call = Idle
  /\ call' = [op |-> "get_monthly_summary", pre |-> Store,
              ret |-> MonthlySummary(transactions)]
  /\ StoreUnchanged
  /\ UNCHANGED <<resolvedBanks, resolvedAccounts, lastImport, sessions>>

\* db.get_account_balance_history(account_id); account_id is Null for None
get_account_balance_history(account_id) ==
  /\ call = Idle
  /\ \E q \in DateDescOrders(transactions, HistorySelection(Store, account_id)) :
       call' = [op |-> "get_account_balance_history", account_id |-> account_id,
                pre |-> Store,
                ret |-> [k \in DOMAIN q |-> HistoryRow(Store, transactions[q[k]])]]
  /\ StoreUnchanged
  /\ UNCHANGED <<resolvedBanks, resolvedAccounts, lastImport, sessions>>

\* the caller takes the result; the connection is ready for the next call
Return ==
  /\ call # Idle
  /\ call' = Idle
  /\ StoreUnchanged
  /\ UNCHANGED <<resolvedBanks, resolvedAccounts, lastImport, sessions>>

Next ==
  \/ \E b \in BankNames : get_or_create_bank(b)
  \/ \E id \in 1..(Len(banks) + 1), n \in AccountNumbers, a \in AccountNames :
       get_or_create_account(id, n, a)
  \/ \E src \in Sources, b \in BankNames, n \in AccountNumbers, a \in AccountNames :
       import_csv_data(src, b, n, a)
  \/ \E src \in OneRowSources, b \in BankNames, n \in AccountNumbers, a \in AccountNames,
        f \in Faults :
       import_csv_data_raising(src, b, n, a, f)
  \/ get_all_transactions
  \/ get_monthly_summary
  \/ \E id \in {Null} \cup {Some(k) : k \in 0..(Len(accounts) + 1)} :
       get_account_balance_history(id)
  \/ Return

Spec == Init /\ [][Next]_vars

\* a caller that imports statements of one account number, at either bank,
\* one after another and keeps what it imported last
NextReimport ==
  \/ \E src \in Sources, b \in BankNames, n \in {"1111"}, a \in AccountNames :
       import_csv_data_kept(src, b, n, a)
  \/ Return

SpecReimport == Init /\ [][NextReimport]_vars

\* a caller that imports one-row statements of one account
NextRows ==
  \/ \E src \in ClassifierSources, b \in {"Bank A"}, n \in {"1111"}, a \in AccountNames :
       import_csv_data(src, b, n, a)
  \/ Return

SpecRows == Init /\ [][NextRows]_vars

(* ----------------------------- properties ------------------------------ *)
ImportReturned == call.op = "import_csv_data"

\* the failure value of import_csv_data
IsFailure(ret) ==
  /\ ret.success = FALSE
  /\ "error" \in DOMAIN ret
  /\ ret.transactions_imported = 0
  /\ ret.errors = <<>>

Blank(cell) == cell = NaN \/ Strip(cell) = <<>>

\* a row the classifier skips, a row that is data, a data row whose cells parse
SkipRule(row) ==
  \/ Blank(row[1])
  \/ \E word \in {Str_Total, Str_Beginning, Str_Ending, Str_Summary} :
       row[2] # NaN /\ Contains(row[2], word)
  \/ Strip(row[1]) = Str_Date
  \/ row[2] # NaN /\ Strip(row[2]) = Str_Description
  \/ row[3] = NaN \/ Strip(row[3]) = Str_nan

Normalizes(row) ==
  /\ parse_date(date_str(row)).ok
  /\ parse_amount(amount_str(row)).ok
  /\ balance_str(row) # <<>> => parse_amount(balance_str(row)).ok

DataRows(rows) == {k \in 1..Len(rows) : ~SkipRule(rows[k])}
ValidRows(rows) == {k \in DataRows(rows) : Normalizes(rows[k])}
FailingRows(rows) == DataRows(rows) \ ValidRows(rows)

\* C1: an import whose source cannot be read returns success = false with an
\* error message, transactions_imported = 0 and errors = [], and the store
\* holds exactly the bank, account and transaction rows it held before the
\* call, also when the bank name and account number are new to the store.
C1_UnreadableSourceChangesNothing ==
  (ImportReturned /\ ~call.src.readable) =>
    /\ IsFailure(call.ret)
    /\ banks = call.pre.banks
    /\ accounts = call.pre.accounts
    /\ transactions = call.pre.transactions

\* an unreadable source was imported for a bank name the store does not hold
C1_Witness ==
  /\ ImportReturned /\ ~call.src.readable
  /\ \A i \in 1..Len(call.pre.banks) : call.pre.banks[i].bank_name # call.bank_name
  /\ Len(call.pre.banks) > 0

\* C2: an import of a readable source, the store not failing, returns
\* success = true whatever rows fail to parse; transactions_imported is the
\* number of data rows whose cells parse; each of them is stored, in source
\* order after the rows the store held; and the error log has exactly one
\* entry for each data row that fails to parse.
C2_RowFailureNeverAborts ==
  (ImportReturned /\ call.src.readable /\ call.fault = "none") =>
    LET rows == call.src.rows
        old == Len(call.pre.transactions)
    IN  /\ call.ret.success
        /\ call.ret.transactions_imported = Cardinality(ValidRows(rows))
        /\ Len(transactions) = old + Cardinality(ValidRows(rows))
        /\ SubSeq(transactions, 1, old) = call.pre.transactions
        /\ \A k \in ValidRows(rows) :
             LET t == transactions[old + Cardinality({v \in ValidRows(rows) : v <= k})]
             IN  /\ t.account_id = call.ret.account_id
                 /\ t.transaction_date = parse_date(date_str(rows[k])).val
                 /\ t.amount = parse_amount(amount_str(rows[k])).val
                 /\ t.description = DescriptionOf(rows[k])
        /\ Len(call.ret.errors) = Cardinality(FailingRows(rows))
        /\ \A k \in FailingRows(rows) :
             Cardinality({e \in DOMAIN call.ret.errors :
                            call.ret.errors[e].row = (k - 1) + 7}) = 1

\* a statement whose first row fails to parse and whose second row is stored
C2_Witness ==
  /\ ImportReturned /\ call.src.readable /\ call.fault = "none"
  /\ 1 \in FailingRows(call.src.rows)
  /\ 2 \in ValidRows(call.src.rows)
  /\ Len(transactions) = Len(call.pre.transactions) + 1

SameImport(a, b) ==
  a.src = b.src /\ a.bank_name = b.bank_name /\ a.account_number = b.account_number

Reimported ==
  /\ ImportReturned /\ call.ret.success
  /\ call.previous.made
  /\ SameImport(call.previous, call)

\* C3: when the statement imported last is imported again with the same bank
\* name and account number, the second import adds no bank row and no
\* account row and returns the bank_id and account_id of the first, and it
\* adds transactions_imported transaction rows to the account again, the
\* same number and the same rows as the first import added.
C3_ReimportDuplicatesTransactionsOnly ==
  Reimported =>
    LET n == call.ret.transactions_imported
        id == call.ret.account_id
        old == call.pre.transactions
    IN  /\ Len(banks) = Len(call.pre.banks)
        /\ Len(accounts) = Len(call.pre.accounts)
        /\ call.ret.bank_id = call.previous.ret.bank_id
        /\ call.ret.account_id = call.previous.ret.account_id
        /\ n = call.previous.ret.transactions_imported
        /\ Cardinality(TxOf(transactions, id)) = Cardinality(TxOf(old, id)) + n
        /\ SubSeq(transactions, Len(transactions) - n + 1, Len(transactions))
             = SubSeq(old, Len(old) - n + 1, Len(old))

\* a statement with a row that is stored was imported twice in a row
C3_Witness == Reimported /\ call.ret.transactions_imported > 0

\* C4: no two bank rows share a bank_name and no two account rows share
\* (bank_id, account_number); the ids get_or_create_bank has returned are
\* equal exactly for equal names, and the ids get_or_create_account has
\* returned are equal exactly for equal (bank_id, account_number).
C4_IdentitiesAreUnique ==
  /\ \A i, j \in 1..Len(banks) : banks[i].bank_name = banks[j].bank_name => i = j
  /\ \A i, j \in 1..Len(accounts) :
       (/\ accounts[i].bank_id = accounts[j].bank_id
        /\ accounts[i].account_number = accounts[j].account_number) => i = j
  /\ \A p, q \in resolvedBanks : p[1] = q[1] <=> p[2] = q[2]
  /\ \A p, q \in resolvedAccounts : (p[1] = q[1] /\ p[2] = q[2]) <=> p[3] = q[3]

\* get_or_create_account has returned the id of a row the store already held,
\* two banks and two accounts having been resolved
C4_Witness ==
  /\ call.op = "get_or_create_account"
  /\ ~call.raised
  /\ call.ret \in 1..Len(call.pre.accounts)
  /\ Cardinality(resolvedBanks) = 2
  /\ Cardinality(resolvedAccounts) = 2

\* the calendar date <<y, m, d>> that a stored transaction_date denotes
CalendarOf(text) ==
  <<FieldVal(Split(text, "-")[1]), FieldVal(Split(text, "-")[2]),
    FieldVal(Split(text, "-")[3])>>

\* calendar date c is earlier than calendar date d
Earlier(c, d) ==
  \/ c[1] < d[1]
  \/ c[1] = d[1] /\ c[2] < d[2]
  \/ c[1] = d[1] /\ c[2] = d[2] /\ c[3] < d[3]

\* the account's transaction of the latest date, the highest id among equals
LatestByCalendar(txs, account_id) ==
  CHOOSE i \in TxOf(txs, account_id) :
    \A j \in TxOf(txs, account_id) \ {i} :
      \/ Earlier(CalendarOf(txs[j].transaction_date), CalendarOf(txs[i].transaction_date))
      \/ /\ CalendarOf(txs[j].transaction_date) = CalendarOf(txs[i].transaction_date)
         /\ j < i

BalanceBefore(account_id) ==
  IF account_id \in 1..Len(call.pre.accounts)
  THEN call.pre.accounts[account_id].current_balance
  ELSE Null

BalanceRule(latest(_, _)) ==
  LET id == call.ret.account_id
  IN  IF call.ret.transactions_imported > 0
         /\ ~IsNull(transactions[latest(transactions, id)].balance_after)
      THEN accounts[id].current_balance = transactions[latest(transactions, id)].balance_after
      ELSE accounts[id].current_balance = BalanceBefore(id)

\* C5: after a successful import that inserted a transaction, the account's
\* current_balance is the balance_after of the account's transaction of the
\* latest date among all its stored transactions, the highest id among those
\* of that date, when that transaction has a balance_after; otherwise, and
\* when nothing was inserted, current_balance is what it was.
C5_BalanceOfLatestTransaction ==
  (ImportReturned /\ call.ret.success) => BalanceRule(LatestByCalendar)

\* C6: a one-row statement whose row matches a skip rule adds no transaction
\* row and no error entry, whatever its date and amount cells hold.
C6_SkipRulesComeFirst ==
  (ImportReturned /\ call.src.readable /\ call.fault = "none") =>
    \A k \in 1..Len(call.src.rows) :
      SkipRule(call.src.rows[k]) =>
        /\ \A e \in DOMAIN call.ret.errors : call.ret.errors[e].row # (k - 1) + 7
        /\ Len(transactions) - Len(call.pre.transactions) + Len(call.ret.errors)
             <= Len(call.src.rows) - 1

\* a summary row whose date cell does not parse was imported and skipped
C6_Witness ==
  /\ ImportReturned /\ call.src.readable /\ Len(call.src.rows) = 1
  /\ ~Blank(call.src.rows[1][1])
  /\ call.src.rows[1][2] # NaN /\ Contains(call.src.rows[1][2], Str_Total)
  /\ ~parse_date(Strip(call.src.rows[1][1])).ok
  /\ ~parse_amount(call.src.rows[1][3]).ok
  /\ call.ret.success /\ call.ret.errors = <<>>
  /\ transactions = call.pre.transactions

\* the store raised outside the row loop's own handler
StoreFailed == ImportReturned /\ call.src.readable /\ call.fault \notin {"none", "insert"}

C8_TypeFollowsAmount ==
  /\ \A i \in 1..Len(transactions) :
       /\ transactions[i].transaction_type \in {"credit", "debit"}
       /\ transactions[i].transaction_type = "credit" <=> transactions[i].amount >= 0
  /\ (ImportReturned /\ call.ret.success /\ call.fault = "none") =>
       \A k \in ValidRows(call.src.rows) :
         LET t == transactions[Len(call.pre.transactions)
                                 + Cardinality({v \in ValidRows(call.src.rows) : v <= k})]
         IN  t.transaction_type =
               IF parse_amount(amount_str(call.src.rows[k])).val >= 0
               THEN "credit" ELSE "debit"

\* the store holds a credit of amount zero and a debit
C8_Witness ==
  /\ \E i \in 1..Len(transactions) :
       transactions[i].amount = 0 /\ transactions[i].transaction_type = "credit"
  /\ \E i \in 1..Len(transactions) :
       transactions[i].amount < 0 /\ transactions[i].transaction_type = "debit"

\* every stored date is in zero-padded YYYY-MM-DD form
CanonicalDates ==
  \A i \in 1..Len(transactions) : IsIsoDate(transactions[i].transaction_date)

\* the calendar year and month of a stored date, and its YYYY-MM text
MonthOf(text) == <<CalendarOf(text)[1], CalendarOf(text)[2]>>
MonthText(m) == NumStr(m[1]) \o <<"-">> \o Pad2(m[2])
MonthRows(txs, m) == {i \in 1..Len(txs) : MonthOf(txs[i].transaction_date) = m}

\* row r sums up the transactions of calendar month m
SumsMonth(r, txs, m) ==
  /\ r.month = Some(MonthText(m))
  /\ r.total_income =
       Sum([i \in {j \in MonthRows(txs, m) : txs[j].transaction_type = "credit"} |->
              txs[i].amount])
  /\ r.total_expenses =
       Sum([i \in {j \in MonthRows(txs, m) : txs[j].transaction_type = "debit"} |->
              Abs(txs[i].amount)])
  /\ r.total_expenses >= 0
  /\ r.net_amount = r.total_income - r.total_expenses
  /\ r.net_amount = Sum([i \in MonthRows(txs, m) |-> txs[i].amount])

MonthlyRule ==
  LET months == {MonthOf(transactions[i].transaction_date) : i \in 1..Len(transactions)}
  IN  /\ Len(call.ret) = Cardinality(months)
      /\ \A m \in months :
           \E k \in DOMAIN call.ret : SumsMonth(call.ret[k], transactions, m)
      /\ \A k, l \in DOMAIN call.ret :
           k < l => /\ ~IsNull(call.ret[k].month)
                    /\ ~IsNull(call.ret[l].month)
                    /\ TextLess(call.ret[l].month[1], call.ret[k].month[1])

\* C9: get_monthly_summary returns one row per calendar year-month that has a
\* stored transaction, months descending; a row's total_income is the sum of
\* the month's credit amounts, its total_expenses the sum of the absolute
\* amounts of the month's debits (never negative), and its net_amount is
\* total_income - total_expenses, the sum of all the month's amounts.
C9_OneRowPerCalendarMonth ==
  call.op = "get_monthly_summary" => MonthlyRule

\* the rule of C9 for stores whose dates are all canonical
C9_HoldsForCanonicalDates ==
  (call.op = "get_monthly_summary" /\ CanonicalDates) => MonthlyRule

\* the rule of C5 for stores whose dates are all canonical
C5_HoldsForCanonicalDates ==
  (ImportReturned /\ call.ret.success /\ CanonicalDates) => BalanceRule(LatestByCalendar)

\* result holds one row, made by row(_, _), for each transaction of selection
OneRowEach(result, selection, row(_, _)) ==
  /\ Len(result) = Cardinality(selection)
  /\ \E q \in [1..Len(result) -> selection] :
       /\ \A k, l \in DOMAIN q : k # l => q[k] # q[l]
       /\ \A k \in DOMAIN q : result[k] = row(Store, transactions[q[k]])

\* the dates of result never increase from one row to the next
NonIncreasingDates(result) ==
  \A k, l \in DOMAIN result :
    k < l => ~Earlier(CalendarOf(result[k].transaction_date),
                      CalendarOf(result[l].transaction_date))

\* the transactions a history call is about: those of the given account, all
\* of them when no account is given (None, or 0 which the code takes as none)
GivenAccount(account_id) ==
  IF IsNull(account_id) \/ account_id[1] = 0
  THEN 1..Len(transactions)
  ELSE {i \in 1..Len(transactions) : transactions[i].account_id = account_id[1]}

ListingRule ==
  /\ call.op = "get_all_transactions" =>
       /\ Store = call.pre
       /\ OneRowEach(call.ret, 1..Len(transactions), ListingRow)
       /\ NonIncreasingDates(call.ret)
       /\ transactions = <<>> => call.ret = <<>>
  /\ call.op = "get_account_balance_history" =>
       /\ Store = call.pre
       /\ OneRowEach(call.ret, GivenAccount(call.account_id), HistoryRow)
       /\ NonIncreasingDates(call.ret)
       /\ transactions = <<>> => call.ret = <<>>

\* C10: get_all_transactions and get_account_balance_history change nothing in
\* the store and return one row per stored transaction (the filtered history:
\* one per transaction of the given account, none of another), the dates
\* never increasing along the result; on an empty store both return [].
C10_ReadOnlyChronologicalListing == ListingRule

\* the rule of C10 for stores whose dates are all canonical
C10_HoldsForCanonicalDates == CanonicalDates => ListingRule

(* ------------------------- the parsers alone --------------------------- *)
\* decimal literals as a statement writes them, each with the value it
\* denotes, in hundredths
AmountLiterals ==
  { [text |-> <<"0">>, value |-> 0],
    [text |-> <<"5">>, value |-> 500],
    [text |-> <<"5", ".">>, value |-> 500],
    [text |-> <<".", "5">>, value |-> 50],
    [text |-> <<"0", ".", "0", "7">>, value |-> 7],
    [text |-> <<"1", "0", "0", ".", "0", "0">>, value |-> 10000],
    [text |-> <<"1", ",", "2", "3", "4", ".", "5", "6">>, value |-> 123456],
    [text |-> <<"1", "2", ",", "3", "4", "5", ".", "6">>, value |-> 1234560] }

\* a value as the cell holds it: bare or between quote characters, with or
\* without blanks around it
Quotings == {"bare", "quoted"}
Paddings == {"none", "blanks"}

Written(text, quoting, padding) ==
  LET quoted == IF quoting = "quoted" THEN <<"\"">> \o text \o <<"\"">> ELSE text
  IN  IF padding = "blanks" THEN <<" ">> \o quoted \o <<" ", " ">> ELSE quoted

\* inputs parse_amount takes for no amount
ZeroInputs == {Null, <<" ">>, <<" ", " ">>, Str_nan, <<" ", "n", "a", "n", " ">>}

\* texts that are no plain decimal literal: the special values and the
\* exponent, sign and underscore notations of Decimal, and malformed texts
OtherAmountInputs ==
  {<<"N", "a", "N">>,
   <<"\"", "n", "a", "n", "\"">>,
   <<"n", ",", "a", "n">>,
   <<"N", "A", "N">>,
   <<"I", "n", "f", "i", "n", "i", "t", "y">>,
   <<"i", "n", "f">>,
   <<"-", "i", "n", "f">>,
   <<"(", "n", "a", "n", ")">>,
   <<"(", "i", "n", "f", ")">>,
   <<"s", "N", "a", "N">>,
   <<"-", "s", "N", "a", "N">>,
   <<"(", "s", "n", "a", "n", ")">>,
   <<"n", "a", "n", "1", "2">>,
   <<"1", "e", "2">>,
   <<"1", "E", "2">>,
   <<"1", "e", "-", "2">>,
   <<"-", "1", "e", "2">>,
   <<"(", "1", "e", "2", ")">>,
   <<"1", ".", "5", "e", "1">>,
   <<"+", "5">>,
   <<"(", "+", "5", ")">>,
   <<"1", "_", "0">>,
   <<"(", "-", "5", ")">>,
   <<"$", "5">>,
   <<"5", " ", "6">>,
   <<"-", "-", "5">>,
   <<"(", "5">>,
   <<"5", ")">>,
   <<"-", "(", "5", ")">>,
   <<"e", "5">>,
   <<"1", "e">>,
   <<"i", "n", "f", "i", "n", "i", "t">>,
   <<"1", ".", "2", "3", "4">>,
   <<"-", "1", ".", "0", "0", "5">>,
   <<"-", ".">>,
   <<".">>,
   <<"+">>,
   <<"n", "a", "n", ".">>,
   <<"i", ",", "n", "f">>,
   <<" ", "(", " ", "5", " ", ")", " ">>,
   <<"1", "e", "-", "3">>,
   <<"1", "e", "+", "2">>
}

AmountInputs ==
  ZeroInputs
  \cup OtherAmountInputs
  \cup {A_text, <<"(", ")">>, <<"-">>, <<"1", ".", "2", ".", "3">>}
  \cup {Written(sign \o l.text, q, p) :
          sign \in {<<>>, <<"-">>}, l \in AmountLiterals, q \in Quotings, p \in Paddings}
  \cup {Written(<<"(">> \o l.text \o <<")">>, q, p) :
          l \in AmountLiterals, q \in Quotings, p \in Paddings}

\* date texts: the fields of a date joined by "/" or "-" in either order,
\* and texts of other shapes
MonthFields == {<<"1">>, <<"0", "1">>, <<"2">>, <<"0", "4">>, <<"1", "2">>, <<"1", "3">>, <<"0">>}
DayFields == {<<"1">>, <<"0", "1">>, <<" ", "1">>, <<"2", "9">>, <<"3", "0">>, <<"3", "1">>,
              <<"3", "2">>}
YearFields == {<<"2", "0", "2", "4">>, <<"2", "0", "2", "3">>, <<"2", "4">>}

Joined(a, b, c, sep) == a \o <<sep>> \o b \o <<sep>> \o c

DateInputs ==
  {D_text, <<>>, <<"2", "0", "2", "4", "/", "0", "4", "/", "0", "1">>,
   <<"0", "4", "-", "0", "1", "-", "2", "0", "2", "4">>,
   <<"0", "4", "/", "0", "1">>}
  \cup {Joined(m, d, y, "/") : m \in MonthFields, d \in DayFields, y \in YearFields}
  \cup {Joined(y, m, d, "-") : m \in MonthFields, d \in DayFields, y \in YearFields}

\* a caller about to apply one of the parsers to one input
Pending(op, arg) == [op |-> op, arg |-> arg, returned |-> FALSE]

InitParse ==
  /\ banks = <<>>
  /\ accounts = <<>>
  /\ transactions = <<>>
  /\ call \in {Pending("parse_amount", t) : t \in AmountInputs}
            \cup {Pending("parse_date", t) : t \in DateInputs}
  /\ resolvedBanks = {}
  /\ resolvedAccounts = {}
  /\ lastImport = NoImport
  /\ sessions = NoSessions

\* db.parse_amount(arg)
ParseAmountCall ==
  /\ call.op = "parse_amount" /\ ~call.returned
  /\ call' = [op |-> call.op, arg |-> call.arg, returned |-> TRUE,
              ret |-> parse_amount(call.arg)]
  /\ StoreUnchanged
  /\ UNCHANGED <<resolvedBanks, resolvedAccounts, lastImport, sessions>>

\* db.parse_date(arg)
ParseDateCall ==
  /\ call.op = "parse_date" /\ ~call.returned
  /\ call' = [op |-> call.op, arg |-> call.arg, returned |-> TRUE,
              ret |-> parse_date(call.arg)]
  /\ StoreUnchanged
  /\ UNCHANGED <<resolvedBanks, resolvedAccounts, lastImport, sessions>>

NextParse == ParseAmountCall \/ ParseDateCall

SpecParse == InitParse /\ [][NextParse]_vars

AmountParsed == call.op = "parse_amount" /\ call.returned
DateParsed == call.op = "parse_date" /\ call.returned

\* C11: parse_amount returns zero, without raising, for a null, empty,
\* blank or "nan" input; for a decimal literal, with or without thousands
\* commas and quote characters around it, it returns the literal's value; with
\* a leading "-" the negative of that value; and for a literal wrapped in
\* parentheses the negation of the literal.
C11_ParseAmountValues ==
  AmountParsed =>
    /\ call.arg \in ZeroInputs => call.ret = Ok(0)
    /\ \A l \in AmountLiterals, q \in Quotings, p \in Paddings :
         /\ call.arg = Written(l.text, q, p) => call.ret = Ok(l.value)
         /\ call.arg = Written(<<"-">> \o l.text, q, p) => call.ret = Ok(0 - l.value)
         /\ call.arg = Written(<<"(">> \o l.text \o <<")">>, q, p)
              => call.ret = Ok(0 - l.value)

\* parse_amount has returned -1234.56 for "(1,234.56)" between quotes
C11_Witness ==
  /\ AmountParsed
  /\ call.arg = <<"\"", "(", "1", ",", "2", "3", "4", ".", "5", "6", ")", "\"">>
  /\ call.ret = Ok(0 - 123456)

\* the calendar dates of the years the date texts name, and their two notations
CalendarDates ==
  {c \in {2023, 2024} \X (1..12) \X (1..31) : c[3] <= DaysInMonth(c[1], c[2])}

Pad4(n) ==
  IF n < 10 THEN <<"0", "0", "0">> \o NumStr(n)
  ELSE IF n < 100 THEN <<"0", "0">> \o NumStr(n)
  ELSE IF n < 1000 THEN <<"0">> \o NumStr(n)
  ELSE NumStr(n)

\* YYYY-MM-DD
IsoDate(c) == Joined(Pad4(c[1]), Pad2(c[2]), Pad2(c[3]), "-")

\* MM/DD/YYYY, month and day with or without the leading zero
SlashForms(c) ==
  {Joined(m, d, Pad4(c[1]), "/") :
     m \in {NumStr(c[2]), Pad2(c[2])}, d \in {NumStr(c[3]), Pad2(c[3])}}

DateRule ==
  /\ \A c \in CalendarDates :
       /\ call.arg \in SlashForms(c) => call.ret = Ok(IsoDate(c))
       /\ call.arg = IsoDate(c) => call.ret = Ok(call.arg)
  /\ (\A c \in CalendarDates : call.arg \notin SlashForms(c) \cup {IsoDate(c)})
       => ~call.ret.ok

\* C12: parse_date maps every valid MM/DD/YYYY text, zero-padded or not, to
\* the YYYY-MM-DD text of the same calendar date, returns a valid YYYY-MM-DD
\* text unchanged, and fails for every other shape and every invalid date.
C12_ParseDateShapes == DateParsed => DateRule

\* a text with a blank in it, or dash-separated with a one-character month or
\* day field
LooseFields(text) ==
  \/ \E i \in 1..Len(text) : text[i] = " "
  \/ /\ ~Contains(text, <<"/">>)
     /\ Len(Split(text, "-")) = 3
     /\ Len(Split(text, "-")[2]) = 1 \/ Len(Split(text, "-")[3]) = 1

\* the rule of C12 for texts without such fields
C12_HoldsForStrictFields == (DateParsed /\ ~LooseFields(call.arg)) => DateRule

(* --------------------------- error entries ----------------------------- *)
\* the layout of a statement file: six preamble lines, the header line, then
\* the data rows
PreambleLines == 6
HeaderLines == 1

\* the line of the file that holds the k-th data row
FileLine(k) == PreambleLines + HeaderLines + k

\* the j-th of the rows that fail to normalize
NthFailing(rows, j) ==
  CHOOSE k \in FailingRows(rows) : Cardinality({f \in FailingRows(rows) : f <= k}) = j

\* C13: every row-level error entry of import_csv_data names the line of the
\* file that holds the offending row: lines 1-6 are the preamble, line 7 the
\* header, and the k-th data row is line 7 + k.
C13_ErrorNamesFileLine ==
  (ImportReturned /\ call.ret.success /\ call.fault = "none") =>
    \A j \in DOMAIN call.ret.errors :
      call.ret.errors[j].row = FileLine(NthFailing(call.src.rows, j))

\* what the entries name instead: the line before the offending row
C13_ErrorNamesLineBefore ==
  (ImportReturned /\ call.ret.success /\ call.fault = "none") =>
    \A j \in DOMAIN call.ret.errors :
      call.ret.errors[j].row = FileLine(NthFailing(call.src.rows, j)) - 1

(* ------------------------- stored balance_after ------------------------ *)
\* the transaction stored for the valid row k of the import that has returned
StoredFor(k) ==
  transactions[Len(call.pre.transactions)
                 + Cardinality({v \in ValidRows(call.src.rows) : v <= k})]

\* the balance cell of the row is absent or empty
NoBalanceCell(row) == Blank(row[4])

BalanceCellRule(k) ==
  /\ IsNull(StoredFor(k).balance_after) <=> NoBalanceCell(call.src.rows[k])
  /\ ~NoBalanceCell(call.src.rows[k]) =>
       StoredFor(k).balance_after = Some(parse_amount(Strip(call.src.rows[k][4])).val)

\* C16: for every imported row the stored balance_after is NULL exactly when
\* the row's balance cell is absent or empty, and otherwise it is the value
\* parse_amount returns for the cell, whatever that value is.
C16_BalanceAfterIsParsedCell ==
  (ImportReturned /\ call.ret.success) =>
    \A k \in ValidRows(call.src.rows) : BalanceCellRule(k)

\* the rule of C16 for the rows whose balance cell does not parse to zero
C16_HoldsForNonZeroBalances ==
  (ImportReturned /\ call.ret.success) =>
    \A k \in ValidRows(call.src.rows) :
      (NoBalanceCell(call.src.rows[k]) \/ parse_amount(Strip(call.src.rows[k][4])).val # 0)
        => BalanceCellRule(k)

(* ------------------- reading and identity resolution ------------------- *)
\* the step is an import_csv_data call
ImportStep == call = Idle /\ call'.op = "import_csv_data"

\* C17 as stated: the identities are resolved, created and committed before
\* the source is read, so an import whose source cannot be read, for a bank
\* name and an account number the store does not hold, leaves the bank row
\* and the account row it created in the store.
C17_IdentitiesRemainAfterFailedRead ==
  (/\ ImportReturned /\ ~call.src.readable
   /\ BankLookup(call.pre, call.bank_name) = {})
    => \E b \in BankLookup(Store, call.bank_name) :
         AccountLookup(Store, b, call.account_number) # {}

\* C17, amended: the source is read before the identities are resolved.  An
\* import whose source cannot be read resolves and creates no identity; an
\* import that fails after the source was read and the bank was resolved
\* leaves the bank row in the store.
C17_SourceIsReadBeforeIdentities ==
  [][/\ (ImportStep /\ ~call'.src.readable)
          => UNCHANGED <<banks, accounts, resolvedBanks, resolvedAccounts>>
     /\ (ImportStep /\ call'.src.readable /\ call'.fault \notin {"none", "bank"})
          => \E i \in 1..Len(banks') : banks'[i].bank_name = call'.bank_name]_vars

\* on an empty store, an import whose source cannot be read has returned
C17_Witness ==
  /\ ImportReturned /\ ~call.src.readable
  /\ call.pre.banks = <<>> /\ call.pre.accounts = <<>>
  /\ banks = <<>> /\ accounts = <<>>

(* ------------------------ referential integrity ------------------------ *)
\* C20: in every store state, every transaction row's account_id is the id
\* of an account row and every account row's bank_id is the id of a bank row.
C20_ReferencesExist ==
  /\ \A i \in 1..Len(transactions) : transactions[i].account_id \in 1..Len(accounts)
  /\ \A i \in 1..Len(accounts) : accounts[i].bank_id \in 1..Len(banks)

\* get_or_create_account was called with the id of no bank, on a store that
\* holds accounts and transactions, and raised
C20_Witness ==
  /\ call.op = "get_or_create_account" /\ call.raised
  /\ call.bank_id \notin 1..Len(banks)
  /\ accounts # <<>> /\ transactions # <<>>

(* ------------------------------ append-only ---------------------------- *)
\* every operation, on one bank and one account number, the account given
\* either of two display names
DisplayNames == {"Account 1", "Account 2"}

NextNames ==
  \/ get_or_create_bank("Bank A")
  \/ \E id \in 1..(Len(banks) + 1), a \in DisplayNames :
       get_or_create_account(id, "1111", a)
  \/ \E src \in OneRowSources \cup {Unreadable}, a \in DisplayNames :
       import_csv_data(src, "Bank A", "1111", a)
  \/ \E src \in OneRowSources, a \in DisplayNames, f \in Faults :
       import_csv_data_raising(src, "Bank A", "1111", a, f)
  \/ \E src \in Sources, a \in DisplayNames :
       import_csv_data_raising(src, "Bank A", "1111", a, "insert")
  \/ get_all_transactions
  \/ get_monthly_summary
  \/ \E id \in {Null} \cup {Some(k) : k \in 0..(Len(accounts) + 1)} :
       get_account_balance_history(id)
  \/ Return

SpecNames == Init /\ [][NextNames]_vars

\* the rows of old are the first rows of new, unchanged
Extends(new, old) == Len(new) >= Len(old) /\ SubSeq(new, 1, Len(old)) = old

\* the same, but for the current_balance of the rows
ExtendsButBalance(new, old) ==
  /\ Len(new) >= Len(old)
  /\ \A i \in 1..Len(old) :
       [new[i] EXCEPT !.current_balance = old[i].current_balance] = old[i]

\* C19: no step deletes a bank, account or transaction row or changes a field
\* of an existing bank or transaction row, and of an existing account row
\* only current_balance changes; an import that names an existing account by
\* another display name leaves the stored account_name as it was.
C19_RowsAreAppendOnly ==
  [][/\ Extends(banks', banks)
     /\ Extends(transactions', transactions)
     /\ ExtendsButBalance(accounts', accounts)]_vars

\* an import that names the stored account by another display name has
\* stored a transaction and set the account's current_balance
C19_Witness ==
  /\ ImportReturned /\ call.ret.success /\ call.ret.transactions_imported > 0
  /\ call.pre.accounts # <<>>
  /\ accounts[call.ret.account_id].account_name # call.account_name
  /\ accounts[call.ret.account_id].current_balance
       # call.pre.accounts[call.ret.account_id].current_balance

(* --------------------- the store raising on an INSERT ------------------ *)
\* the store raised on the INSERT of a transaction row of the import that
\* has returned
InsertFailed ==
  /\ ImportReturned /\ call.src.readable /\ call.fault = "insert"
  /\ ValidRows(call.src.rows) # {}

\* C15: a store failure raised by the INSERT of a transaction row is a
\* structural failure: the call returns success = false, every write of the
\* call is rolled back and no row of the call remains in the store; it is
\* not logged as a row-level error.
C15_InsertFailureAbortsImport ==
  InsertFailed =>
    /\ IsFailure(call.ret)
    /\ transactions = call.pre.transactions

\* what happens instead: the failure is logged as an error entry of the row,
\* the other rows are stored and committed, and the call returns success
C15_InsertFailureIsRowError ==
  InsertFailed =>
    /\ call.ret.success
    /\ Len(call.ret.errors) = Cardinality(FailingRows(call.src.rows)) + 1
    /\ call.ret.transactions_imported = Cardinality(ValidRows(call.src.rows)) - 1
    /\ Len(transactions) = Len(call.pre.transactions) + call.ret.transactions_imported

\* the INSERT of one row raised and another row of the call is in the store
C15_PartialImport ==
  /\ InsertFailed
  /\ call.ret.success
  /\ Len(transactions) > Len(call.pre.transactions)

(* ------------------ connections sharing one database ------------------- *)
\* import_csv_data statement by statement, each connection at its own pace.
\* banks, accounts, transactions are the committed rows of the file.  A
\* connection reads the committed rows and the rows it has written itself;
\* its first INSERT of a transaction row opens a transaction and takes the
\* write lock of the file, which it holds until its commit; the INSERT of
\* get_or_create_bank / get_or_create_account is committed at once.  A
\* connection that needs the lock while another holds it waits.
InFlight == {c \in Connections : sessions[c].pc \notin {"idle", "done"}}

\* the transaction rows the calls in progress may still add
Planned == Sum([c \in InFlight |-> Len(sessions[c].src.rows)])

LockedByOther(c) ==
  \E d \in Connections \ {c} : sessions[d].pc # "idle" /\ sessions[d].locked

\* what connection c reads
View(c) == IF sessions[c].locked THEN sessions[c].work ELSE Store

OthersUnchanged == UNCHANGED <<call, resolvedBanks, resolvedAccounts, lastImport>>

\* the call is entered and pd.read_csv has run
Begin(c, src, bank_name, account_number, account_name) ==
  /\ sessions[c].pc = "idle"
  /\ Len(transactions) + Planned + Len(src.rows) <= MaxTx
  /\ sessions' = [sessions EXCEPT ![c] =
       [pc |-> IF src.readable THEN "lookup_bank" ELSE "done",
        src |-> src, bank_name |-> bank_name, account_number |-> account_number,
        account_name |-> account_name, pre |-> Store,
        bank_id |-> 0, account_id |-> 0,
        locked |-> FALSE, work |-> Null, transactions_imported |-> 0, errors |-> <<>>,
        ret |-> IF src.readable THEN Null ELSE Some(Failure("read_csv"))]]
  /\ StoreUnchanged
  /\ OthersUnchanged

\* get_or_create_bank: the SELECT and "if result"
SelectBank(c) ==
  /\ sessions[c].pc = "lookup_bank"
  /\ sessions' = [sessions EXCEPT ![c] =
       IF BankLookup(Store, sessions[c].bank_name) # {}
       THEN [@ EXCEPT !.bank_id = Min(BankLookup(Store, sessions[c].bank_name)),
                      !.pc = "lookup_account"]
       ELSE [@ EXCEPT !.pc = "insert_bank"]]
  /\ StoreUnchanged
  /\ OthersUnchanged

\* get_or_create_bank: the INSERT and the commit
InsertBank(c) ==
  /\ sessions[c].pc = "insert_bank"
  /\ ~LockedByOther(c)
  /\ banks' = Append(banks, [bank_name |-> sessions[c].bank_name])
  /\ sessions' = [sessions EXCEPT ![c].bank_id = Len(banks) + 1,
                                  ![c].pc = "lookup_account"]
  /\ UNCHANGED <<accounts, transactions>>
  /\ OthersUnchanged

\* get_or_create_account: the SELECT and "if result"
SelectAccount(c) ==
  /\ sessions[c].pc = "lookup_account"
  /\ sessions' = [sessions EXCEPT ![c] =
       IF AccountLookup(Store, sessions[c].bank_id, sessions[c].account_number) # {}
       THEN [@ EXCEPT !.account_id =
                        Min(AccountLookup(Store, sessions[c].bank_id,
                                          sessions[c].account_number)),
                      !.pc = "rows"]
       ELSE [@ EXCEPT !.pc = "insert_account"]]
  /\ StoreUnchanged
  /\ OthersUnchanged

\* get_or_create_account: the INSERT and the commit
InsertAccount(c) ==
  /\ sessions[c].pc = "insert_account"
  /\ ~LockedByOther(c)
  /\ accounts' = Append(accounts, NewAccount(sessions[c].bank_id,
                                             sessions[c].account_number,
                                             sessions[c].account_name))
  /\ sessions' = [sessions EXCEPT ![c].account_id = Len(accounts) + 1,
                                  ![c].pc = "rows"]
  /\ UNCHANGED <<banks, transactions>>
  /\ OthersUnchanged

\* the session after the row loop that ended in the working state w
Streaming(session, w) ==
  [session EXCEPT !.pc = "balance",
                  !.locked = w.transactions_imported > 0,
                  !.work = IF w.transactions_imported > 0
                           THEN [Store EXCEPT !.transactions = w.transactions]
                           ELSE Null,
                  !.transactions_imported = w.transactions_imported,
                  !.errors = w.errors]

\* the row loop of connection c over the committed rows
Rows(c) ==
  RowLoop(sessions[c].src.rows, 1, sessions[c].account_id,
          [transactions |-> transactions, transactions_imported |-> 0, errors |-> <<>>])

\* the row loop: the rows inserted are not committed
StreamStep(c) ==
  /\ sessions[c].pc = "rows"
  /\ Rows(c).transactions_imported > 0 => ~LockedByOther(c)
  /\ sessions' = [sessions EXCEPT ![c] = Streaming(sessions[c], Rows(c))]
  /\ StoreUnchanged
  /\ OthersUnchanged

\* "Update account current balance", not committed either
BalanceStep(c) ==
  /\ sessions[c].pc = "balance"
  /\ sessions' = [sessions EXCEPT ![c].pc = "commit",
                                  ![c].work =
                                    IF sessions[c].locked
                                    THEN UpdateBalance(sessions[c].work,
                                                       sessions[c].account_id,
                                                       sessions[c].transactions_imported)
                                    ELSE Null]
  /\ StoreUnchanged
  /\ OthersUnchanged

\* self.conn.commit() and the return value
CommitStep(c) ==
  /\ sessions[c].pc = "commit"
  /\ IF sessions[c].locked THEN Commit(sessions[c].work) ELSE StoreUnchanged
  /\ sessions' = [sessions EXCEPT ![c].pc = "done",
                                  ![c].locked = FALSE,
                                  ![c].work = Null,
                                  ![c].ret = Some(Success(sessions[c].transactions_imported,
                                                          sessions[c].errors,
                                                          sessions[c].bank_id,
                                                          sessions[c].account_id))]
  /\ OthersUnchanged

\* the caller of connection c takes the result
ReturnStep(c) ==
  /\ sessions[c].pc = "done"
  /\ sessions' = [sessions EXCEPT ![c] = Closed]
  /\ StoreUnchanged
  /\ OthersUnchanged

\* a reader that believes uncommitted rows
Observed_Uncommitted(committed, uncommitted) == uncommitted

\* what another connection reads while the rows of the writer are in
\* committed and the writer's own view is uncommitted
Observed(committed, uncommitted) == committed

\* a second connection reads banks, accounts and transactions while
\* connection c is inside import_csv_data
Observe(c) ==
  /\ call = Idle
  /\ sessions[c].pc # "idle"
  /\ call' = [op |-> "observe", during |-> sessions[c],
              ret |-> Observed(Store, View(c))]
  /\ StoreUnchanged
  /\ UNCHANGED <<resolvedBanks, resolvedAccounts, lastImport, sessions>>

ImportSteps(c) ==
  \/ SelectBank(c)
  \/ InsertBank(c)
  \/ SelectAccount(c)
  \/ InsertAccount(c)
  \/ StreamStep(c)
  \/ BalanceStep(c)
  \/ CommitStep(c)
  \/ ReturnStep(c)

\* one connection imports, a second one reads
ReaderSources == OneRowSources \cup {Readable(<<>>), Unreadable}

NextReader ==
  \/ \E src \in ReaderSources, b \in BankNames : Begin(1, src, b, "1111", "Account 1")
  \/ ImportSteps(1)
  \/ Observe(1)
  \/ Return

SpecReader == Init /\ [][NextReader]_vars

\* two connections import for the same bank name and account number
NextWriters ==
  \E c \in Connections :
    \/ \E src \in OneRowSources : Begin(c, src, "Bank A", "1111", "Account 1")
    \/ ImportSteps(c)

SpecWriters == Init /\ [][NextWriters]_vars

(* ----------------------- what a reader can observe --------------------- *)
\* the stores import_csv_data commits on its way, for the call of session s
WithBank(s) == BankResolution(s.pre, s.bank_name)

WithAccount(s) ==
  AccountResolution(WithBank(s).db, WithBank(s).id, s.account_number, s.account_name).db

PostImport(s) ==
  Import(s.pre, s.src, s.bank_name, s.account_number, s.account_name, "none").db

Observing == call.op = "observe"

CommittedAt(s) ==
  CASE s.pc \in {"lookup_bank", "insert_bank"} -> s.pre
    [] s.pc \in {"lookup_account", "insert_account"} -> WithBank(s).db
    [] s.pc \in {"rows", "balance", "commit"} -> WithAccount(s)
    [] s.pc = "done" -> PostImport(s)

C18_ConcurrentResolutionKeepsOneRow ==
  \A c \in Connections :
    sessions[c].pc = "done" /\ sessions[c].src.readable =>
      /\ Cardinality(BankLookup(Store, sessions[c].bank_name)) = 1
      /\ Cardinality(AccountLookup(Store, sessions[c].bank_id,
                                   sessions[c].account_number)) = 1

\* the same for the account rows alone
C18_OneAccountRow ==
  \A c \in Connections :
    sessions[c].pc = "done" /\ sessions[c].src.readable =>
      Cardinality(AccountLookup(Store, sessions[c].bank_id,
                                sessions[c].account_number)) = 1

(* ------------------------ non-numeric amounts -------------------------- *)
\* the text of an amount after trimming and removing commas and quote
\* characters, and what is left of it without a leading "-" or a wrapping
\* pair of parentheses
Trimmed(text) == Strip(Remove(Remove(text, ","), "\""))

Unwrapped(t) ==
  IF t # <<>> /\ t[1] = "-" THEN Tail(t)
  ELSE IF Len(t) >= 2 /\ t[1] = "(" /\ t[Len(t)] = ")" THEN Strip(SubSeq(t, 2, Len(t) - 1))
  ELSE t

\* digits with an optional fractional part
IsPlainLiteral(t) ==
  /\ Len(Split(t, ".")) \in {1, 2}
  /\ \A i \in 1..Len(Split(t, ".")) : AllDigits(Split(t, ".")[i])
  /\ \E i \in 1..Len(t) : t[i] \in Digits

\* parse_amount was applied to a text that is not taken for no amount and
\* is no plain decimal literal
NonNumeric ==
  /\ AmountParsed
  /\ call.arg \notin ZeroInputs
  /\ ~IsPlainLiteral(Unwrapped(Trimmed(call.arg)))

\* C21: parse_amount fails for every input that, trimmed and without commas,
\* quote characters, a leading "-" or a wrapping pair of parentheses, is no
\* plain decimal literal of digits with an optional fractional part; it
\* returns no value for such a text.
C21_NonNumericAmountFails == NonNumeric => ~call.ret.ok

\* texts for which the claim of C21 holds: those without a letter, a "+" or
\* an underscore, and without a second sign inside parentheses
NoDecimalNotation ==
  /\ \A i \in 1..Len(call.arg) :
       call.arg[i] \in Digits \cup {" ", ",", "\"", ".", "-", "(", ")", "$"}
  /\ Unwrapped(Trimmed(call.arg)) = <<>> \/ Unwrapped(Trimmed(call.arg))[1] # "-"

C21_HoldsForDigitsAndPunctuation ==
  NonNumeric /\ NoDecimalNotation => ~call.ret.ok

(* ----------------------- every row accounted for ----------------------- *)
Succeeded == ImportReturned /\ call.ret.success

\* the positions, in the source, of the rows the classifier skips and of the
\* rows the error entries name
SkippedRows(rows) == (1..Len(rows)) \ DataRows(rows)

ErroredRows(errors) == {errors[j].row - PreambleLines : j \in 1..Len(errors)}

\* the transaction rows the call added, oldest first
Added == Len(transactions) - Len(call.pre.transactions)

\* the n-th row added holds the description and the amount of source row k
AddedFrom(n, k) ==
  /\ transactions[Len(call.pre.transactions) + n].account_id = call.ret.account_id
  /\ transactions[Len(call.pre.transactions) + n].description =
       DescriptionOf(call.src.rows[k])
  /\ transactions[Len(call.pre.transactions) + n].amount =
       parse_amount(amount_str(call.src.rows[k])).val

Increasing(f) == \A i, j \in DOMAIN f : i < j => f[i] < f[j]

\* C22: after a successful import every row of the source is accounted for
\* exactly once as skipped, imported or errored: transactions_imported plus
\* the number of error entries plus the number of skipped rows is the number
\* of rows read; transactions_imported is the number of transaction rows the
\* call added; and the rows added and the error entries are in source order.
C22_EveryRowAccountedOnce ==
  Succeeded =>
    /\ call.ret.transactions_imported + Len(call.ret.errors)
         + Cardinality(SkippedRows(call.src.rows)) = Len(call.src.rows)
    /\ call.ret.transactions_imported = Added
    /\ SubSeq(transactions, 1, Len(call.pre.transactions)) = call.pre.transactions
    /\ \A i, j \in 1..Len(call.ret.errors) :
         i < j => call.ret.errors[i].row < call.ret.errors[j].row
    /\ ErroredRows(call.ret.errors) \subseteq DataRows(call.src.rows)
    /\ \E f \in [1..Added -> DataRows(call.src.rows) \ ErroredRows(call.ret.errors)] :
         /\ Increasing(f)
         /\ \A n \in 1..Added : AddedFrom(n, f[n])

\* a store that held a transaction; a statement of two rows, one imported
\* and one logged as an error
C22_Witness ==
  /\ Succeeded
  /\ Len(call.pre.transactions) > 0
  /\ Len(call.src.rows) = 2
  /\ call.ret.transactions_imported = 1
  /\ Len(call.ret.errors) = 1

\* a statement of two rows: one skipped, then one imported
C22_WitnessSkipped ==
  /\ Succeeded
  /\ SkippedRows(call.src.rows) = {1}
  /\ call.ret.transactions_imported = 1

(* --------------------------- canonical dates --------------------------- *)
\* a 4-digit year, a 2-digit month and a 2-digit day joined by "-"
ZeroPadded(s) ==
  /\ Len(s) = 10
  /\ s[5] = "-" /\ s[8] = "-"
  /\ \A i \in {1, 2, 3, 4, 6, 7, 9, 10} : s[i] \in Digits

\* C23: every value parse_date returns without error is in zero-padded
\* YYYY-MM-DD form (4-digit year, 2-digit month, 2-digit day).
C23_ParseDateIsCanonical ==
  DateParsed /\ call.ret.ok => ZeroPadded(call.ret.val)

\* the same for the texts parse_date reads as MM/DD/YYYY
C23_HoldsForSlashDates ==
  DateParsed /\ call.ret.ok /\ (\E i \in 1..Len(call.arg) : call.arg[i] = "/")
    => ZeroPadded(call.ret.val)

\* what C23 concludes for the store: every stored transaction_date is
\* zero-padded, the text order of two stored dates is their order in the
\* calendar, and the store's year-month of every stored date is defined
C23_StoredDatesOrderAsCalendar ==
  /\ \A i \in 1..Len(transactions) :
       /\ ZeroPadded(transactions[i].transaction_date)
       /\ ~IsNull(SqlMonth(transactions[i].transaction_date))
  /\ \A i, j \in 1..Len(transactions) :
       TextLess(transactions[i].transaction_date, transactions[j].transaction_date)
         <=> Earlier(CalendarOf(transactions[i].transaction_date),
                     CalendarOf(transactions[j].transaction_date))

(* ------------------------ other accounts untouched --------------------- *)
\* the account rows of the bank name and account number the call names
Named(db) ==
  {i \in 1..Len(db.accounts) :
     /\ db.accounts[i].account_number = call.account_number
     /\ db.banks[db.accounts[i].bank_id].bank_name = call.bank_name}

\* the transaction rows of account b, each with its id
OwnedBy(txs, b) == {<<i, txs[i]>> : i \in TxOf(txs, b)}

\* C24: an import_csv_data call for an account changes nothing of any other
\* account: the row of every other account, with its current_balance, and
\* the set of its transactions are after the call what they were before it,
\* whether the call succeeds or fails.
C24_OtherAccountsUntouched ==
  ImportReturned =>
    \A b \in (1..Len(call.pre.accounts)) \ Named(call.pre) :
      /\ b \in 1..Len(accounts)
      /\ b \notin Named(Store)
      /\ accounts[b] = call.pre.accounts[b]
      /\ OwnedBy(transactions, b) = OwnedBy(call.pre.transactions, b)

\* the call added a transaction and set the balance of its account while
\* another account held a transaction and a balance
C24_Witness ==
  /\ Succeeded
  /\ call.ret.transactions_imported > 0
  /\ ~IsNull(accounts[call.ret.account_id].current_balance)
  /\ \E b \in (1..Len(call.pre.accounts)) \ Named(call.pre) :
       /\ ~IsNull(call.pre.accounts[b].current_balance)
       /\ accounts[call.ret.account_id].current_balance # call.pre.accounts[b].current_balance
       /\ TxOf(call.pre.transactions, b) # {}

\* the call failed after it had created its account beside another one
C24_WitnessFailed ==
  /\ ImportReturned /\ ~call.ret.success
  /\ Len(accounts) = Len(call.pre.accounts) + 1
  /\ \E b \in 1..Len(call.pre.accounts) : TxOf(call.pre.transactions, b) # {}
====
